---- MODULE Spec2Model ----
(***************************************************************************)
(* Model of retirement_calculator.py (Dutch Financial Freedom Calculator): *)
(* the two calculation functions, calculate_monthly_savings and            *)
(* calculate_box3_tax, and the Streamlit script that reads the widgets,    *)
(* selects the withdrawal rate, sizes the required capital and calls the   *)
(* savings function.                                                       *)
(*                                                                         *)
(* Numbers.  Python computes in binary floating point.  The model computes *)
(* in exact arithmetic: a rational is a pair of arbitrary-size integers    *)
(* (sequences of base-10^4 limbs, since TLC's integers are 32 bits wide),  *)
(* and the one irrational of the program, the twelfth root taken at line   *)
(* 128, is carried symbolically: a real is a + b * g^(1/12) with a, b, g   *)
(* rational.  Every value the script computes has this form, so the model  *)
(* evaluates the source's expressions step by step without rounding; a     *)
(* float result differs from the model's value by rounding error only,     *)
(* except where rounding changes the outcome of a call: there the model    *)
(* follows the doubles (see calculate_monthly_savings).  A Python          *)
(* exception (ZeroDivisionError, OverflowError) is an explicit outcome.    *)
(***************************************************************************)
EXTENDS Integers, Sequences, FiniteSets, TLC

(***************************************************************************)
(* The operators that the others are built from are entries of one         *)
(* recursive definition, Call (defined last): Name(args) stands for the    *)
(* body NameBody(args).  TLC accounts for the cost of a nonrecursive       *)
(* definition separately at each place it is used; through Call the        *)
(* layers of arithmetic are accounted for once.                            *)
(***************************************************************************)
RECURSIVE Call(_, _, _, _, _)

NatAdd(x, y) == Call("NatAdd", x, y, 0, 0)
NatSub(x, y) == Call("NatSub", x, y, 0, 0)
NatMul(x, y) == Call("NatMul", x, y, 0, 0)
IntAdd(x, y) == Call("IntAdd", x, y, 0, 0)
QAdd(x, y) == Call("QAdd", x, y, 0, 0)
QMul(x, y) == Call("QMul", x, y, 0, 0)
QDiv(x, y) == Call("QDiv", x, y, 0, 0)
QPow(x, k) == Call("QPow", x, k, 0, 0)
RSign(x) == Call("RSign", x, 0, 0, 0)
calculate_monthly_savings(goal, current, annual_rate, years) == Call("calculate_monthly_savings", goal, current, annual_rate, years)
calculate_box3_tax(wealth, has_partner) == Call("calculate_box3_tax", wealth, has_partner, 0, 0)
RunScript(w, prev) == Call("RunScript", w, prev, 0, 0)
QMk(n, d) == Call("QMk", n, d, 0, 0)
Q(n, d) == Call("Q", n, d, 0, 0)

(***************************************************************************)
(* Natural numbers of any size: little-endian sequences of limbs in        *)
(* 0..Base-1 without leading zero limbs; <<>> is zero.  Carries are found  *)
(* by looking back along the limbs, without recursion.                     *)
(***************************************************************************)
Base == 100 * 100

Limb(x, i) == IF i >= 1 /\ i <= Len(x) THEN x[i] ELSE 0

NatNorm(s) ==
  IF s = <<>> \/ s[Len(s)] # 0 THEN s
  ELSE IF \A i \in 1..Len(s) : s[i] = 0 THEN <<>>
  ELSE SubSeq(s, 1, CHOOSE i \in 1..Len(s) :
                      s[i] # 0 /\ \A j \in (i + 1)..Len(s) : s[j] = 0)

NatOfInt(n) ==
  NatNorm(<<n % Base, (n \div Base) % Base, n \div (Base * Base)>>)

\* x + y.  t[i] is the sum of the limbs at i; a carry leaves limb i when
\* t[i] overflows, or when t[i] is Base - 1 and a carry reaches it.
NatAddBody(x, y) ==
  LET n == IF Len(x) > Len(y) THEN Len(x) ELSE Len(y)
      t == [i \in 1..n |-> Limb(x, i) + Limb(y, i)]
      carry(i) ==
        /\ i >= 1
        /\ \/ t[i] >= Base
           \/ /\ t[i] = Base - 1
              /\ \E j \in 1..(i - 1) :
                   t[j] >= Base /\ \A k \in (j + 1)..(i - 1) : t[k] = Base - 1
  IN  IF n = 0 THEN <<>>
      ELSE IF t = <<>> THEN <<>>
      ELSE NatNorm([i \in 1..(n + 1) |->
                      IF i = n + 1 THEN (IF carry(n) THEN 1 ELSE 0)
                      ELSE (t[i] + (IF carry(i - 1) THEN 1 ELSE 0)) % Base])

\* x - y for x >= y.  t[i] is the difference of the limbs at i; a borrow
\* leaves limb i when t[i] is negative, or when t[i] is 0 and a borrow
\* reaches it.
NatSubBody(x, y) ==
  LET n == Len(x)
      t == [i \in 1..n |-> x[i] - Limb(y, i)]
      borrow(i) ==
        /\ i >= 1
        /\ \/ t[i] < 0
           \/ /\ t[i] = 0
              /\ \E j \in 1..(i - 1) :
                   t[j] < 0 /\ \A k \in (j + 1)..(i - 1) : t[k] = 0
  IN  IF n = 0 THEN <<>>
      ELSE IF t = <<>> THEN <<>>
      ELSE NatNorm([i \in 1..n |->
                      (t[i] - (IF borrow(i - 1) THEN 1 ELSE 0) + Base) % Base])

\* -1, 0 or 1 as x < y, x = y, x > y.
NatCmp(x, y) ==
  IF Len(x) < Len(y) THEN -1
  ELSE IF Len(x) > Len(y) THEN 1
  ELSE IF x = y THEN 0
  ELSE LET top == CHOOSE i \in 1..Len(x) :
                    x[i] # y[i] /\ \A j \in (i + 1)..Len(x) : x[j] = y[j]
       IN  IF x[top] < y[top] THEN -1 ELSE 1

NatShift(x, k) == IF x = <<>> \/ k = 0 THEN x ELSE [i \in 1..k |-> 0] \o x

\* The most limbs a column of a product may add up: 20 products of two
\* limbs stay below 2^31.
MaxColumn == 2 * 10

\* The sum of x[j] * y[k + 1 - j] for j in lo..hi: column k of x * y.
RECURSIVE ColSum(_, _, _, _, _)
ColSum(x, y, k, lo, hi) ==
  IF lo > hi THEN 0 ELSE x[lo] * y[k + 1 - lo] + ColSum(x, y, k, lo + 1, hi)

\* x * y by columns, for y of at most MaxColumn limbs.
MulColumns(x, y) ==
  LET n == Len(x)
      m == Len(y)
      col == [k \in 1..(n + m - 1) |->
                ColSum(x, y, k, IF k > m THEN k + 1 - m ELSE 1,
                       IF k < n THEN k ELSE n)]
  IN  IF col = <<>> THEN <<>>
      ELSE NatAdd(NatAdd(NatNorm([k \in 1..(n + m - 1) |-> col[k] % Base]),
                         NatShift(NatNorm([k \in 1..(n + m - 1) |->
                                             (col[k] \div Base) % Base]), 1)),
                  NatShift(NatNorm([k \in 1..(n + m - 1) |->
                                      col[k] \div (Base * Base)]), 2))

\* x * k for one limb k.
NatMulSmall(x, k) == IF x = <<>> \/ k = 0 THEN <<>> ELSE MulColumns(x, <<k>>)

\* x times the number made of limbs lo..hi of y.
RECURSIVE MulRange(_, _, _, _)
MulRange(x, y, lo, hi) ==
  IF hi - lo < MaxColumn THEN MulColumns(x, SubSeq(y, lo, hi))
  ELSE LET mid == (lo + hi) \div 2
       IN  NatAdd(MulRange(x, y, lo, mid),
                  NatShift(MulRange(x, y, mid + 1, hi), mid - lo + 1))

NatMulBody(x, y) ==
  IF x = <<>> \/ y = <<>> THEN <<>>
  ELSE IF y = <<1>> THEN x
  ELSE IF x = <<1>> THEN y
  ELSE MulRange(x, y, 1, Len(y))

\* The machine integer of a natural below Base^2.
NatSmall(x) == Limb(x, 1) + Base * Limb(x, 2)

RECURSIVE Gcd(_, _)
Gcd(m, n) == IF n = 0 THEN m ELSE Gcd(n, m % n)

(***************************************************************************)
(* Integers: sign and magnitude; zero is never negative.                   *)
(***************************************************************************)
IntMk(neg, mag) == [neg |-> neg /\ mag # <<>>, mag |-> mag]

IntOf(n) == IF n < 0 THEN IntMk(TRUE, NatOfInt(-n)) ELSE IntMk(FALSE, NatOfInt(n))

IntNeg(x) == IntMk(~x.neg, x.mag)

IntSign(x) == IF x.mag = <<>> THEN 0 ELSE IF x.neg THEN -1 ELSE 1

IntAddBody(x, y) ==
  IF x.neg = y.neg THEN IntMk(x.neg, NatAdd(x.mag, y.mag))
  ELSE LET c == NatCmp(x.mag, y.mag)
       IN  IF c = 0 THEN IntMk(FALSE, <<>>)
           ELSE IF c > 0 THEN IntMk(x.neg, NatSub(x.mag, y.mag))
           ELSE IntMk(y.neg, NatSub(y.mag, x.mag))

IntMulNat(x, m) == IntMk(x.neg, NatMul(x.mag, m))

IntMul(x, y) == IntMk(x.neg # y.neg, NatMul(x.mag, y.mag))

(***************************************************************************)
(* Rationals n/d with d > 0.  A fraction whose terms are both below Base^2 *)
(* is kept in lowest terms; a larger one is kept as computed.  Comparison  *)
(* and equality (QCmp, QEq) cross-multiply and do not depend on the form.  *)
(***************************************************************************)
QMkBody(n, d) ==
  IF n.mag = <<>> THEN [n |-> n, d |-> <<1>>]
  ELSE IF Len(n.mag) <= 2 /\ Len(d) <= 2
  THEN LET g == Gcd(NatSmall(n.mag), NatSmall(d))
       IN  [n |-> IntMk(n.neg, NatOfInt(NatSmall(n.mag) \div g)),
            d |-> NatOfInt(NatSmall(d) \div g)]
  ELSE [n |-> n, d |-> d]

\* The rational n/d of two machine integers, d # 0.
QBody(n, d) == IF d < 0 THEN QMk(IntOf(-n), NatOfInt(-d)) ELSE QMk(IntOf(n), NatOfInt(d))

Zero == [n |-> [neg |-> FALSE, mag |-> <<>>], d |-> <<1>>]
One == [n |-> [neg |-> FALSE, mag |-> <<1>>], d |-> <<1>>]

QNeg(x) == [n |-> IntNeg(x.n), d |-> x.d]
QSign(x) == IntSign(x.n)
QAddBody(x, y) ==
  IF x.d = y.d THEN QMk(IntAdd(x.n, y.n), x.d)
  ELSE QMk(IntAdd(IntMulNat(x.n, y.d), IntMulNat(y.n, x.d)), NatMul(x.d, y.d))
QSub(x, y) == QAdd(x, QNeg(y))
QMulBody(x, y) == QMk(IntMul(x.n, y.n), NatMul(x.d, y.d))
\* x / y for y # 0.
QDivBody(x, y) == QMk(IntMk(x.n.neg # y.n.neg, NatMul(x.n.mag, y.d)), NatMul(x.d, y.n.mag))
\* -1, 0 or 1 as x < y, x = y, x > y.
QCmp(x, y) == QSign(QSub(x, y))
QEq(x, y) == QCmp(x, y) = 0
QLeq(x, y) == QCmp(x, y) <= 0
QLt(x, y) == QCmp(x, y) < 0
QMax(x, y) == IF QLt(x, y) THEN y ELSE x

\* x ** k for an integer k (x # 0 when k < 0), by repeated squaring.  The
\* test on h only makes TLC evaluate the half power before it multiplies.
QPowBody(x, k) ==
  IF k = 0 \/ x = One THEN One
  ELSE IF k < 0 THEN QPow(QDiv(One, x), -k)
  ELSE LET h == QPow(x, k \div 2)
       IN  IF h.d = <<>> THEN h
           ELSE IF k % 2 = 1 THEN QMul(x, QMul(h, h)) ELSE QMul(h, h)

(***************************************************************************)
(* Reals a + b * g^(1/12), with a, b, g rational and g > 0: what a Python  *)
(* float of the savings function stands for.  A rational has b = 0 (and    *)
(* g = 1).  Sums are taken between reals over the same root.               *)
(***************************************************************************)
R(q) == [a |-> q, b |-> Zero, g |-> One]

RIsRational(x) == QSign(x.b) = 0

\* x ** (1/12) for a rational x > 0.
Root12(x) == [a |-> Zero, b |-> One, g |-> x]

RMk(a, b, g) == IF QSign(b) = 0 THEN R(a) ELSE [a |-> a, b |-> b, g |-> g]

RAdd(x, y) ==
  RMk(QAdd(x.a, y.a), QAdd(x.b, y.b), IF RIsRational(x) THEN y.g ELSE x.g)

RNeg(x) == RMk(QNeg(x.a), QNeg(x.b), x.g)

RSub(x, y) == RAdd(x, RNeg(y))

\* The product, one factor being rational.
RMul(x, y) ==
  IF RIsRational(y) THEN RMk(QMul(x.a, y.a), QMul(x.b, y.a), x.g)
  ELSE RMk(QMul(x.a, y.a), QMul(x.a, y.b), y.g)

\* x / y for a rational y # 0.
RDiv(x, y) == RMk(QDiv(x.a, y.a), QDiv(x.b, y.a), x.g)

\* x ** k for an integer k: of a rational, or of b * g^(1/12) with 12 | k.
RPow(x, k) ==
  IF RIsRational(x) THEN R(QPow(x.a, k))
  ELSE CASE QSign(x.a) = 0 /\ k % 12 = 0 ->
            R(QMul(QPow(x.b, k), QPow(x.g, k \div 12)))

\* The sign of a + b * g^(1/12): with t = g^(1/12) > 0 and a, b of opposite
\* signs, t is compared with -a/b by comparing g with (-a/b)^12.
RSignBody(x) ==
  IF RIsRational(x) THEN QSign(x.a)
  ELSE IF QSign(x.a) = 0 \/ QSign(x.a) = QSign(x.b) THEN QSign(x.b)
  ELSE IF QEq(QNeg(x.a), x.b) THEN QSign(x.b) * QCmp(x.g, One)
  ELSE QSign(x.b) * QCmp(x.g, QPow(QDiv(QNeg(x.a), x.b), 12))

RIsZero(x) == RSign(x) = 0
REq(x, y) == RIsZero(RSub(x, y))
RLeq(x, y) == RSign(RSub(x, y)) <= 0
RLt(x, y) == RSign(RSub(x, y)) < 0

\* Python's max(0, x): x when 0 < x, else the first argument.
Max0(x) == IF RSign(x) > 0 THEN x ELSE R(Zero)

(***************************************************************************)
(* The outcome of a Python call: a returned value or a raised exception.   *)
(* A returned float is a real number or an infinity; the record with       *)
(* g = Zero stands for the infinity whose sign is that of a.               *)
(***************************************************************************)
Returned(v) == [exc |-> "none", value |-> v]
Raised(e) == [exc |-> e, value |-> R(Zero)]

Infinity(negative) ==
  [a |-> IF negative THEN QNeg(One) ELSE One, b |-> Zero, g |-> Zero]
RIsInfinite(x) == x.g = Zero

QAbs(x) == IF QSign(x) < 0 THEN QNeg(x) ELSE x
RAbs(x) == IF RSign(x) < 0 THEN RNeg(x) ELSE x

(***************************************************************************)
(* calculate_monthly_savings (lines 124-131).  goal, current, annual_rate  *)
(* are rationals, years an integer.  The float divisions raise             *)
(* ZeroDivisionError on a zero divisor.  Three effects of IEEE double      *)
(* arithmetic change the outcome of a call and are modelled: the sum       *)
(* 1 + annual_rate and its twelfth root round to 1.0 for an annual_rate    *)
(* close to 0; ** raises OverflowError when its result is beyond the       *)
(* largest double; +, - and * give an infinity there instead.  Elsewhere   *)
(* the model's value is the exact one.  Which side of the largest double   *)
(* a rounded result falls on is left open where the roundings of the       *)
(* platform's pow decide it, so a call has a set of outcomes, of one       *)
(* element except at such a boundary.                                      *)
(***************************************************************************)
\* 2^k.
Two(k) == QPow(Q(2, 1), k)

\* The doubles end at 2^1024 - 2^971; a result of magnitude 2^1024 - 2^970
\* or more rounds beyond them.
OverflowFrom == QSub(Two(1024), Two(970))

\* |x| < 10^(4 * limbs), from the lengths of the numerator and denominator.
Slim(x, limbs) == Len(x.n.mag) - Len(x.d) < limbs
SlimR(x) == Slim(x.a, 60) /\ Slim(x.b, 60) /\ Slim(x.g, 75)

\* A double within the relative error err of the exact x can be beyond the
\* largest double (MayOverflow), can be within the doubles (MayFit).
MayOverflow(x, err) ==
  /\ ~Slim(x, 75)
  /\ QLeq(OverflowFrom, QMul(QAbs(x), QAdd(One, err)))
MayFit(x, err) ==
  \/ Slim(x, 75)
  \/ QLt(QMul(QAbs(x), QSub(One, err)), OverflowFrom)
\* A bound of |a + b * g^(1/12)| from the tangent and the chord of the root:
\* 1 + (g - 1) / (12 * g) <= g^(1/12) <= 1 + (g - 1) / 12 for g > 0.
UpperBound(x) ==
  LET low == QAdd(One, QDiv(QSub(x.g, One), QMul(Q(12, 1), x.g)))
      high == QAdd(One, QDiv(QSub(x.g, One), Q(12, 1)))
  IN  QMax(QAbs(QAdd(x.a, QMul(x.b, low))), QAbs(QAdd(x.a, QMul(x.b, high))))

MayOverflowR(x, err) ==
  /\ ~SlimR(x)
  /\ MayOverflow(UpperBound(x), err)
  /\ RLeq(R(QDiv(OverflowFrom, QAdd(One, err))), RAbs(x))
MayFitR(x, err) ==
  \/ SlimR(x)
  \/ MayFit(UpperBound(x), err)
  \/ QLeq(One, err)
  \/ RLt(RAbs(x), R(QDiv(OverflowFrom, QSub(One, err))))

\* Line 126 with no test of the sign of the quotient's operands.  The
\* difference of two doubles is correctly rounded: it is an infinity from
\* OverflowFrom on, and so is its quotient.
LinearAmortization(goal, current, years) ==
  LET difference == QSub(goal, current)
  IN  IF years * 12 = 0 THEN Raised("ZeroDivisionError")
      ELSE IF ~Slim(difference, 75) /\ QLeq(OverflowFrom, QAbs(difference))
      THEN Returned(Infinity((QSign(difference) < 0) # (years < 0)))
      ELSE Returned(R(QDiv(difference, Q(years * 12, 1))))

\* Line 128 in doubles: 1 + annual_rate rounds to one of 1 - 5 * 2^-53, ...,
\* 1 + 6 * 2^-52, the doubles whose twelfth root rounds to 1.0, when
\* -11 * 2^-54 < annual_rate <= 13 * 2^-53 (ties round to even).
RoundsToOneAbove == QMul(Q(-11, 1), Two(-54))
RoundsToOneUpTo == QMul(Q(13, 1), Two(-53))

RootRoundsToOne(annual_rate) ==
  /\ QLt(Q(-1, 1000), annual_rate)
  /\ QLt(annual_rate, Q(1, 1000))
  /\ QLt(RoundsToOneAbove, annual_rate)
  /\ QLeq(annual_rate, RoundsToOneUpTo)

\* Line 128.
MonthlyRate(annual_rate) ==
  IF RootRoundsToOne(annual_rate) THEN R(Zero)
  ELSE RSub(Root12(QAdd(One, annual_rate)), R(One))

\* Line 129.
FutureValueFactor(monthly_rate, months) == RPow(RAdd(R(One), monthly_rate), months)

\* Lines 128-129 in doubles: future_value_factor is the power of the rounded
\* root to the rounded exponent 1/12.  The exponent is 2^-54 short of 1/12
\* in relative terms, which moves the root by at most 30 * 2^-53 (a double's
\* logarithm is below 745), each rounding moves a result by at most 2^-52,
\* and the power multiplies the root's error by months: the bound below is
\* twice the sum.
PowError(months) ==
  QMul(Q(64 * (IF months < 0 THEN -months ELSE months) + 8, 1), Two(-53))

\* Line 130 in doubles: the relative error of the product by the quotient.
\* The difference carries at most twice the error of future_value_factor.
\* The quotient monthly_rate / (future_value_factor - 1) is computed from
\* the rounded root: as a function of the root it changes by at most
\* |months| + 1 times the root's relative change, which PowError bounds,
\* and the rounding of the power is magnified in future_value_factor - 1.
\* The sum is rounded up to a power of 2.
RoundUp(q) ==
  IF QLt(Two(12), q) THEN q
  ELSE Two(CHOOSE k \in -60..12 :
             /\ QLeq(q, Two(k))
             /\ k = -60 \/ QLt(Two(k - 1), q))

NeededError(annual_rate, months, future_value_factor) ==
  RoundUp(
    QAdd(QMul(Q(4, 1), PowError(months)),
         QMul(Two(-51), QAbs(QDiv(future_value_factor,
                                  QSub(future_value_factor, One))))))

\* A variant of line 130 that leaves out the growth of the current balance;
\* the round trip tells it from line 130.
NeededPerMonth_no_growth(goal, current, monthly_rate, future_value_factor) ==
  RMul(RSub(R(goal), R(current)),
       RDiv(monthly_rate, RSub(future_value_factor, R(One))))

\* Line 130.
NeededPerMonth(goal, current, monthly_rate, future_value_factor) ==
  RMul(RSub(R(goal), RMul(R(current), future_value_factor)),
       RDiv(monthly_rate, RSub(future_value_factor, R(One))))

\* Lines 130-131 in doubles, operation by operation.  A result beyond the
\* largest double is an infinity of the result's sign, and what is computed
\* from an infinity is an infinity: goal - product has the sign opposite to
\* an infinite product whatever the goal is, and the product by the quotient
\* monthly_rate / (future_value_factor - 1) has the sign of the difference
\* times the sign of the quotient.  max(0, .) keeps the positive infinity
\* and replaces the negative one by 0.  The product carries the error of
\* future_value_factor, the difference at most twice that.
MaxOfZeroAndInfinity(sign) ==
  IF sign > 0 THEN Returned(Infinity(FALSE)) ELSE Returned(R(Zero))

NeededOutcomes(goal, current, annual_rate, months, monthly_rate, future_value_factor) ==
  LET needed == NeededPerMonth(goal, current, monthly_rate, future_value_factor)
      product == QMul(current, future_value_factor.a)
      difference == QSub(goal, product)
      quotient_sign ==
        QSign(annual_rate) * QSign(QSub(future_value_factor.a, One))
      product_error == PowError(months)
      difference_error == QMul(Q(2, 1), PowError(months))
      needed_error == NeededError(annual_rate, months, future_value_factor.a)
  IN  (IF MayOverflow(product, product_error)
       THEN {MaxOfZeroAndInfinity(- QSign(product) * quotient_sign)}
       ELSE {})
      \cup
      (IF ~MayFit(product, product_error) THEN {}
       ELSE (IF MayOverflow(difference, difference_error)
             THEN {MaxOfZeroAndInfinity(QSign(difference) * quotient_sign)}
             ELSE {})
            \cup
            (IF ~MayFit(difference, difference_error) THEN {}
             ELSE (IF MayOverflowR(needed, needed_error)
                   THEN {MaxOfZeroAndInfinity(RSign(needed))}
                   ELSE {})
                  \cup
                  (IF MayFitR(needed, needed_error)
                   THEN {Returned(Max0(needed))}
                   ELSE {})))

\* The set of the outcomes of a call.
calculate_monthly_savings_body(goal, current, annual_rate, years) ==
  IF QLeq(annual_rate, Q(-1, 1))
  THEN {LinearAmortization(goal, current, years)}
  ELSE LET months == years * 12
           monthly_rate == MonthlyRate(annual_rate)
           future_value_factor == FutureValueFactor(monthly_rate, months)
           power == future_value_factor.a
       IN  (IF MayOverflow(power, PowError(months))
            THEN {Raised("OverflowError")} ELSE {})
           \cup (IF ~MayFit(power, PowError(months)) THEN {}
                 ELSE IF RIsZero(RSub(future_value_factor, R(One)))
                 THEN {Raised("ZeroDivisionError")}
                 ELSE NeededOutcomes(goal, current, annual_rate, months,
                                     monthly_rate, future_value_factor))

(***************************************************************************)
(* calculate_box3_tax (lines 134-163).  wealth is a rational.              *)
(***************************************************************************)
\* Two variants of line 136 that the properties of the exemption tell from
\* it: the exemption not doubled for partners, and doubled for singles
\* instead of partners.
tax_free_amount_single_only(has_partner) == Q(57000, 1)
tax_free_amount_swapped(has_partner) == Q(57000 * (IF has_partner THEN 1 ELSE 2), 1)

\* A variant of lines 152-163 that taxes the whole balance at the first rate
\* up to the first limit, without the exemption.
calculate_box3_tax_no_exemption(wealth, has_partner) ==
  IF QSign(wealth) <= 0 THEN Zero
  ELSE IF QLeq(wealth, Q(100000 * (IF has_partner THEN 2 ELSE 1), 1))
  THEN QMul(wealth, Q(193, 10000))
  ELSE QAdd(QMul(Q(100000 * (IF has_partner THEN 2 ELSE 1), 1), Q(193, 10000)),
            QMul(QSub(wealth, Q(100000 * (IF has_partner THEN 2 ELSE 1), 1)),
                 Q(177, 10000)))

\* A variant of lines 152-163 that taxes the whole taxable wealth at the rate
\* of the bracket it falls in (an average rate, not a marginal one).
calculate_box3_tax_average_rate(wealth, has_partner) ==
  LET k == IF has_partner THEN 2 ELSE 1
      tw == QMax(Zero, QSub(wealth, Q(57000 * k, 1)))
  IN  IF QLeq(tw, Q(100000 * k, 1)) THEN QMul(tw, Q(193, 10000))
      ELSE IF QLeq(tw, Q(1000000 * k, 1)) THEN QMul(tw, Q(177, 10000))
      ELSE QMul(tw, Q(186, 10000))

tax_free_amount(has_partner) == Q(57000 * (IF has_partner THEN 2 ELSE 1), 1)
bracket1_limit(has_partner) == Q(100000 * (IF has_partner THEN 2 ELSE 1), 1)
bracket2_limit(has_partner) == Q(1000000 * (IF has_partner THEN 2 ELSE 1), 1)
bracket1_rate == Q(193, 10000)
bracket2_rate == Q(177, 10000)
bracket3_rate == Q(186, 10000)

taxable_wealth(wealth, has_partner) ==
  QMax(Zero, QSub(wealth, tax_free_amount(has_partner)))

calculate_box3_tax_body(wealth, has_partner) ==
  LET tw == taxable_wealth(wealth, has_partner)
      b1 == bracket1_limit(has_partner)
      b2 == bracket2_limit(has_partner)
  IN  IF QSign(tw) > 0
      THEN IF QLeq(tw, b1) THEN QMul(tw, bracket1_rate)
           ELSE IF QLeq(tw, b2)
           THEN QAdd(QMul(b1, bracket1_rate), QMul(QSub(tw, b1), bracket2_rate))
           ELSE QAdd(QAdd(QMul(b1, bracket1_rate),
                          QMul(QSub(b2, b1), bracket2_rate)),
                     QMul(QSub(tw, b2), bracket3_rate))
      ELSE Zero

(***************************************************************************)
(* The script (lines 48-63, 165-462).  Streamlit runs it from the top on   *)
(* every interaction, with the widgets' current values.                    *)
(***************************************************************************)
INITIAL_AGE == 30
TARGET_AGE == 50
MONTHLY_INCOME_GOAL == 3000
INITIAL_PORTFOLIO == 50000
ANNUAL_RETURN == 12
INFLATION_RATE == 3

aow_single == Q(145206, 100)
aow_partner == Q(99481, 100)
SP500_HISTORICAL == Q(126, 1000)

Strategies ==
  {"MatchAnnualReturn", "SP500Historical", "Conservative", "Moderate",
   "Aggressive", "Custom"}

\* The custom slider's default (value=4.0), in tenths of a percent.
CustomDefault == 4 * 10

\* A name the run has not bound, and a call the run has not made.
Unbound == [n |-> [neg |-> FALSE, mag |-> <<>>], d |-> <<>>]
NotCalled == [exc |-> "not called", value |-> R(Zero)]

\* Line 310.
RealReturn(annual_return, inflation_rate) ==
  QSub(QDiv(QAdd(One, annual_return), QAdd(One, inflation_rate)), One)

\* Line 322.
RealSp500Return(inflation_rate) == QSub(SP500_HISTORICAL, inflation_rate)

\* Lines 347-400: the rate of the selected strategy; custom is the slider's
\* value in tenths of a percent.
WithdrawalRate(strategy, real_return, real_sp500_return, custom) ==
  CASE strategy = "MatchAnnualReturn" -> real_return
    [] strategy = "SP500Historical" -> real_sp500_return
    [] strategy = "Conservative" -> Q(3, 100)
    [] strategy = "Moderate" -> Q(4, 100)
    [] strategy = "Aggressive" -> Q(5, 100)
    [] OTHER -> Q(custom, 1000)

\* A variant of line 59 in which the value the previous run left is still
\* there when the script starts.
InitialMonthlyAow_kept(prev) == prev

\* Line 59: the value monthly_aow has when the script starts; prev is the
\* value the previous run left.
InitialMonthlyAow(prev) == Zero

\* Lines 439-444.
MonthlyAow(include_aow, has_partner, initial) ==
  IF include_aow
  THEN IF has_partner THEN QMul(aow_partner, Q(2, 1)) ELSE aow_single
  ELSE initial

\* Line 450.
BaseRequiredCapital(annual_income_needed_from_savings, withdrawal_rate) ==
  IF QSign(withdrawal_rate) > 0
  THEN QDiv(annual_income_needed_from_savings, withdrawal_rate)
  ELSE Zero

\* Line 454.
TaxBuffer(annual_tax, withdrawal_rate) ==
  IF QSign(withdrawal_rate) > 0 THEN QDiv(annual_tax, withdrawal_rate) ELSE Zero

\* A variant of line 183 that lets equal ages through.
AgesRejected_only_below(w) == w.target_age < w.initial_age

\* Line 183: the ages for which the run shows the error and stops.
AgesRejected(w) == w.target_age <= w.initial_age

\* Lines 57-63 and a run that st.stop() ends at line 185.
StoppedRun(prev) ==
  [status |-> "stopped",
   has_partner |-> FALSE, include_aow |-> FALSE,
   monthly_aow |-> InitialMonthlyAow(prev.monthly_aow),
   withdrawal_rate |-> Zero, real_return |-> Zero, break_even_rate |-> Zero,
   years_to_freedom |-> 0,
   annual_income_needed_from_savings |-> Unbound,
   base_required_capital |-> Unbound, annual_tax |-> Unbound,
   tax_buffer |-> Unbound, required_capital |-> Unbound,
   years_to_grow |-> 0,          \* not bound; the call below is not made
   monthly_savings |-> NotCalled, monthly_pre_tax |-> Unbound]

\* The whole script on widget values w: the names it has bound when it ends,
\* and how it ended ("completed", "stopped", or the exception raised).
RunScriptBody(w, prev) ==
  IF AgesRejected(w) THEN {StoppedRun(prev)}
  ELSE
  LET annual_return == Q(w.annual_return, 100)
      inflation_rate == Q(w.inflation_rate, 100)
      real_return == RealReturn(annual_return, inflation_rate)
      withdrawal_rate ==
        WithdrawalRate(w.withdrawal_strategy, real_return,
                       RealSp500Return(inflation_rate), w.custom_rate)
      monthly_aow ==
        MonthlyAow(w.include_aow, w.has_partner,
                   InitialMonthlyAow(prev.monthly_aow))
      annual_spending == Q(w.monthly_income_goal * 12, 1)
      annual_aow == QMul(monthly_aow, Q(12, 1))
      annual_income_needed_from_savings == QSub(annual_spending, annual_aow)
      base_required_capital ==
        BaseRequiredCapital(annual_income_needed_from_savings, withdrawal_rate)
      annual_tax == calculate_box3_tax(base_required_capital, w.has_partner)
      tax_buffer == TaxBuffer(annual_tax, withdrawal_rate)
      required_capital == QAdd(base_required_capital, tax_buffer)
      years_to_grow == w.target_age - w.initial_age
  IN  {[status |->
         IF monthly_savings.exc # "none" THEN monthly_savings.exc
         ELSE "completed",
       has_partner |-> w.has_partner, include_aow |-> w.include_aow,
       monthly_aow |-> monthly_aow,
       withdrawal_rate |-> withdrawal_rate, real_return |-> real_return,
       break_even_rate |-> real_return,
       years_to_freedom |-> w.target_age - w.initial_age,
       annual_income_needed_from_savings |-> annual_income_needed_from_savings,
       base_required_capital |-> base_required_capital,
       annual_tax |-> annual_tax,
       tax_buffer |-> tax_buffer, required_capital |-> required_capital,
       years_to_grow |-> years_to_grow,
       monthly_savings |-> monthly_savings,
       monthly_pre_tax |->
         IF monthly_savings.exc # "none" THEN Unbound
         ELSE QDiv(QMul(required_capital, withdrawal_rate), Q(12, 1))] :
       monthly_savings \in
         calculate_monthly_savings(required_capital,
                                   Q(w.initial_investment, 1),
                                   real_return, years_to_grow)}

(***************************************************************************)
(* The entries of Call.                                                    *)
(***************************************************************************)
Call(f, a1, a2, a3, a4) ==
  CASE f = "NatAdd" -> NatAddBody(a1, a2)
    [] f = "NatSub" -> NatSubBody(a1, a2)
    [] f = "NatMul" -> NatMulBody(a1, a2)
    [] f = "IntAdd" -> IntAddBody(a1, a2)
    [] f = "QMk" -> QMkBody(a1, a2)
    [] f = "Q" -> QBody(a1, a2)
    [] f = "QAdd" -> QAddBody(a1, a2)
    [] f = "QMul" -> QMulBody(a1, a2)
    [] f = "QDiv" -> QDivBody(a1, a2)
    [] f = "QPow" -> QPowBody(a1, a2)
    [] f = "RSign" -> RSignBody(a1)
    [] f = "calculate_monthly_savings" ->
         calculate_monthly_savings_body(a1, a2, a3, a4)
    [] f = "calculate_box3_tax" -> calculate_box3_tax_body(a1, a2)
    [] f = "RunScript" -> RunScriptBody(a1, a2)

(***************************************************************************)
(* State.  widgets: the values Streamlit holds for the input widgets.      *)
(* script: the names the last run of the script bound.  savings_call and   *)
(* tax_call: one call of each calculation function on its own, with its    *)
(* arguments and its outcome.                                              *)
(***************************************************************************)
VARIABLES widgets, script, savings_call, tax_call

vars == <<widgets, script, savings_call, tax_call>>

\* The widgets' values on the first run (their value= arguments).
DefaultWidgets ==
  [initial_age |-> INITIAL_AGE, target_age |-> TARGET_AGE,
   monthly_income_goal |-> MONTHLY_INCOME_GOAL,
   initial_investment |-> INITIAL_PORTFOLIO,
   annual_return |-> ANNUAL_RETURN, inflation_rate |-> INFLATION_RATE,
   has_partner |-> FALSE, include_aow |-> FALSE,
   withdrawal_strategy |-> "MatchAnnualReturn", custom_rate |-> CustomDefault,
   go_crazy |-> FALSE]

\* Lines 57-63: the values before any run.
NoRun ==
  [status |-> "none",
   has_partner |-> FALSE, include_aow |-> FALSE, monthly_aow |-> Zero,
   withdrawal_rate |-> Zero, real_return |-> Zero, break_even_rate |-> Zero,
   years_to_freedom |-> 0,
   annual_income_needed_from_savings |-> Unbound,
   base_required_capital |-> Unbound, annual_tax |-> Unbound,
   tax_buffer |-> Unbound, required_capital |-> Unbound,
   years_to_grow |-> 0,
   monthly_savings |-> NotCalled, monthly_pre_tax |-> Unbound]

NoSavingsCall ==
  [goal |-> <<0, 0, 0, 0>>, current |-> <<0, 0, 0, 0>>,
   annual_rate |-> <<0, 1, 0>>,
   years |-> 1,
   result |-> NotCalled]

NoTaxCall == [wealth |-> 0, has_partner |-> FALSE, called |-> FALSE, result |-> Zero]

(***************************************************************************)
(* The values the model lets the user enter, within the widgets' ranges    *)
(* (lines 177-220, 292-304, 393-400).                                      *)
(***************************************************************************)
MaxIncomeSteps == 1
IncomeStep == MONTHLY_INCOME_GOAL

InitialAgeChoices == {INITIAL_AGE, TARGET_AGE - 1}
TargetAgeChoices == {INITIAL_AGE, TARGET_AGE}
IncomeGoalChoices == {k * IncomeStep : k \in 0..MaxIncomeSteps}
InvestmentChoices == {0, INITIAL_PORTFOLIO}
ReturnChoices == {ANNUAL_RETURN, ANNUAL_RETURN + 1, 100}
InflationChoices == {INFLATION_RATE, ANNUAL_RETURN + 1}
CustomChoices == {CustomDefault, 20 * 10}

\* Lines 213-220: the values the annual return slider offers.
AnnualReturnSlider(go_crazy) ==
  IF go_crazy THEN {5 * k : k \in 1..20} ELSE 5..25

\* An interaction: the widget values change and the script runs again.
Rerun(w) ==
  /\ widgets' = w
  /\ script' \in RunScript(w, script)
  /\ UNCHANGED <<savings_call, tax_call>>

\* Lines 183-185: a run that stops at st.stop() draws the two age inputs
\* only; the widgets created further down exist when the last run went past
\* line 185 (a run that raises at line 459 has drawn them all).
WidgetsDrawn == script.status # "stopped"

SetInitialAge ==
  \E v \in InitialAgeChoices :
    v # widgets.initial_age /\ Rerun([widgets EXCEPT !.initial_age = v])

SetTargetAge ==
  \E v \in TargetAgeChoices :
    v # widgets.target_age /\ Rerun([widgets EXCEPT !.target_age = v])

SetMonthlyIncomeGoal ==
  /\ WidgetsDrawn
  /\ \E v \in IncomeGoalChoices :
       v # widgets.monthly_income_goal
       /\ Rerun([widgets EXCEPT !.monthly_income_goal = v])

SetInitialInvestment ==
  /\ WidgetsDrawn
  /\ \E v \in InvestmentChoices :
       v # widgets.initial_investment
       /\ Rerun([widgets EXCEPT !.initial_investment = v])

SetAnnualReturn ==
  /\ WidgetsDrawn
  /\ \E v \in ReturnChoices \cap AnnualReturnSlider(widgets.go_crazy) :
       v # widgets.annual_return /\ Rerun([widgets EXCEPT !.annual_return = v])

\* The second radio label quotes the inflation-adjusted rate (line 328), so a
\* new inflation value makes the radio a new widget, back on its first option;
\* the custom slider, then not drawn, loses its value.
SetInflationRate ==
  /\ WidgetsDrawn
  /\ \E v \in InflationChoices :
       v # widgets.inflation_rate
       /\ Rerun([widgets EXCEPT !.inflation_rate = v,
                                !.withdrawal_strategy = "MatchAnnualReturn",
                                !.custom_rate = CustomDefault])

TogglePartner ==
  /\ WidgetsDrawn
  /\ \E v \in BOOLEAN :
       v # widgets.has_partner /\ Rerun([widgets EXCEPT !.has_partner = v])

ToggleAow ==
  /\ WidgetsDrawn
  /\ \E v \in BOOLEAN :
       v # widgets.include_aow /\ Rerun([widgets EXCEPT !.include_aow = v])

\* The custom slider exists only while the Custom option is selected.
SelectStrategy ==
  /\ WidgetsDrawn
  /\ \E v \in Strategies :
       v # widgets.withdrawal_strategy
       /\ Rerun([widgets EXCEPT !.withdrawal_strategy = v,
                                !.custom_rate = CustomDefault])

SetCustomRate ==
  /\ WidgetsDrawn
  /\ widgets.withdrawal_strategy = "Custom"
  /\ \E v \in CustomChoices :
       v # widgets.custom_rate /\ Rerun([widgets EXCEPT !.custom_rate = v])

\* The checkbox changes the range and the step of the annual return slider
\* (lines 216-218), a widget with a key: Streamlit either draws the slider
\* anew at its default or keeps a value that is still in range.
ToggleCrazy ==
  /\ WidgetsDrawn
  /\ \E v \in BOOLEAN, r \in {ANNUAL_RETURN, widgets.annual_return} :
       /\ v # widgets.go_crazy
       /\ r \in 5..(IF v THEN 100 ELSE 25)
       /\ Rerun([widgets EXCEPT !.go_crazy = v, !.annual_return = r])

Init ==
  /\ widgets = DefaultWidgets
  /\ script \in RunScript(DefaultWidgets, NoRun)
  /\ savings_call = NoSavingsCall
  /\ tax_call = NoTaxCall

Next ==
  \/ SetInitialAge
  \/ SetTargetAge
  \/ SetMonthlyIncomeGoal
  \/ SetInitialInvestment
  \/ SetAnnualReturn
  \/ SetInflationRate
  \/ TogglePartner
  \/ ToggleAow
  \/ SelectStrategy
  \/ SetCustomRate
  \/ ToggleCrazy

Spec == Init /\ [][Next]_vars

(***************************************************************************)
(* calculate_monthly_savings on its own: the arguments are drawn in the    *)
(* initial state, the one action makes the call.                           *)
(***************************************************************************)
MaxYears == 3

\* Amounts as <<n, e, m, f>> for n * 2^e + m * 2^f: among them 2^1023 and
\* -2^1023, doubles whose difference is beyond the largest double; the
\* lowest double, -(2^1024 - 2^971); and its half, -(2^1023 - 2^970), whose
\* product by a growth factor of 2 is the lowest double.
SavingsGoals ==
  {<<0, 0, 0, 0>>, <<1000, 0, 0, 0>>, <<20000, 0, 0, 0>>, <<1, 1023, 0, 0>>,
   <<-1, 1024, 1, 971>>}
SavingsCurrents ==
  {<<0, 0, 0, 0>>, <<1200, 0, 0, 0>>, <<5000, 0, 0, 0>>, <<-1, 1023, 0, 0>>,
   <<-1, 1023, 1, 970>>}
\* Annual rates as <<n, d, e>> for n / d * 2^e: -200%, -100%, -50%, 0, 7%,
\* 100%, the rates -2^-53 and 2^-53 that 1 + annual_rate rounds away, and
\* 2^512, whose square is at the largest double and whose cube is beyond.
SavingsRates ==
  {<<-2, 1, 0>>, <<-1, 1, 0>>, <<-1, 2, 0>>, <<0, 1, 0>>, <<7, 100, 0>>,
   <<1, 1, 0>>, <<-1, 1, -53>>, <<1, 1, -53>>, <<1, 1, 512>>}

Amount(a) ==
  QAdd(QMul(Q(a[1], 1), Two(a[2])), QMul(Q(a[3], 1), Two(a[4])))
Rate(r) == QMul(Q(r[1], r[2]), Two(r[3]))

InitSavings ==
  /\ widgets = DefaultWidgets
  /\ script = NoRun
  /\ tax_call = NoTaxCall
  /\ \E g \in SavingsGoals, c \in SavingsCurrents, r \in SavingsRates,
        y \in 1..MaxYears :
       savings_call =
         [goal |-> g, current |-> c, annual_rate |-> r, years |-> y,
          result |-> NotCalled]

CallSavings ==
  /\ savings_call.result = NotCalled
  /\ \E outcome \in calculate_monthly_savings(Amount(savings_call.goal),
                                               Amount(savings_call.current),
                                               Rate(savings_call.annual_rate),
                                               savings_call.years) :
       savings_call' = [savings_call EXCEPT !.result = outcome]
  /\ UNCHANGED <<widgets, script, tax_call>>

NextSavings == CallSavings

SpecSavings == InitSavings /\ [][NextSavings]_vars

(***************************************************************************)
(* calculate_box3_tax on its own.                                          *)
(***************************************************************************)
MaxWealthSteps == 90
WealthStep == 25 * 1000

\* A grid, a negative balance, and each threshold with its neighbours.
WealthChoices ==
  {k * WealthStep : k \in 0..MaxWealthSteps}
  \cup {-50000}
  \cup {b + e : b \in {57000, 100000, 114000, 157000, 200000, 314000, 1000000,
                       1057000, 2000000, 2114000},
                e \in {-1, 0, 1}}

InitTax ==
  /\ widgets = DefaultWidgets
  /\ script = NoRun
  /\ savings_call = NoSavingsCall
  /\ \E w \in WealthChoices, p \in BOOLEAN :
       tax_call = [wealth |-> w, has_partner |-> p, called |-> FALSE,
                   result |-> Zero]

CallTax ==
  /\ ~tax_call.called
  /\ tax_call' =
       [tax_call EXCEPT
          !.called = TRUE,
          !.result = calculate_box3_tax(Q(tax_call.wealth, 1),
                                        tax_call.has_partner)]
  /\ UNCHANGED <<widgets, script, savings_call>>

NextTax == CallTax

SpecTax == InitTax /\ [][NextTax]_vars

(***************************************************************************)
(* Properties of calculate_box3_tax, over SpecTax.                         *)
(***************************************************************************)
TaxOf(wealth, has_partner) == calculate_box3_tax(Q(wealth, 1), has_partner)

\* C9: calculate_box3_tax returns 0 for every wealth at or below the exempt
\* threshold, which is 57000 without a partner and 114000 with a partner.
C9_ExemptWealthUntaxed ==
  (tax_call.called
     /\ tax_call.wealth <= (IF tax_call.has_partner THEN 114000 ELSE 57000))
  => QSign(tax_call.result) = 0

\* A call with a partner at exactly the doubled threshold that returned 0.
C9_Witness ==
  /\ tax_call.called
  /\ tax_call.has_partner
  /\ tax_call.wealth = 114000
  /\ QSign(tax_call.result) = 0

\* C10: for every wealth w >= 0 the tax with a partner is at most the tax
\* without one: calculate_box3_tax(w, True) <= calculate_box3_tax(w, False).
C10_PartnerNeverPaysMore ==
  (tax_call.called /\ tax_call.wealth >= 0)
  => LET other == TaxOf(tax_call.wealth, ~tax_call.has_partner)
     IN  IF tax_call.has_partner
         THEN QLeq(tax_call.result, other)
         ELSE QLeq(other, tax_call.result)

\* A call with a partner, on a balance in the top bracket of both schedules,
\* that returned a positive tax strictly below the tax without a partner.
C10_Witness ==
  /\ tax_call.called
  /\ tax_call.has_partner
  /\ tax_call.wealth > 2114000
  /\ QSign(tax_call.result) > 0
  /\ QLt(tax_call.result, TaxOf(tax_call.wealth, FALSE))

\* C4 as stated: without a partner, the tax on a wealth of exactly the first
\* bracket bound (100000) is bound * bracket1_rate, and the tax on one euro
\* more is 1 * bracket2_rate higher.
C4_BoundaryOnWealth ==
  (tax_call.called /\ ~tax_call.has_partner /\ tax_call.wealth = 100000)
  => /\ QEq(tax_call.result, QMul(Q(100000, 1), bracket1_rate))
     /\ QEq(QSub(TaxOf(100001, FALSE), tax_call.result), bracket2_rate)

\* C4, amended: the brackets apply to the wealth above the exemption.  Without
\* a partner, a wealth of 100000 is taxed 43000 * bracket1_rate, and one euro
\* more adds bracket1_rate; the tax is 100000 * bracket1_rate at a wealth of
\* 157000 (57000 + 100000), and one euro more adds exactly bracket2_rate.
C4_BoundaryOnTaxableWealth ==
  (tax_call.called /\ ~tax_call.has_partner)
  => /\ tax_call.wealth = 100000
          => /\ QEq(tax_call.result, QMul(Q(43000, 1), bracket1_rate))
             /\ QEq(QSub(TaxOf(100001, FALSE), tax_call.result), bracket1_rate)
     /\ tax_call.wealth = 157000
          => /\ QEq(tax_call.result, QMul(Q(100000, 1), bracket1_rate))
             /\ QEq(QSub(TaxOf(157001, FALSE), tax_call.result), bracket2_rate)

\* A call without a partner at 157000 that returned 1930.
C4_Witness ==
  /\ tax_call.called
  /\ ~tax_call.has_partner
  /\ tax_call.wealth = 157000
  /\ QEq(tax_call.result, Q(1930, 1))

(***************************************************************************)
(* Properties of calculate_monthly_savings, over SpecSavings.              *)
(***************************************************************************)
SavingsCalled == savings_call.result # NotCalled
SavingsReturned == savings_call.result.exc = "none"
SavingsGoal == Amount(savings_call.goal)
SavingsCurrent == Amount(savings_call.current)
SavingsRate == Rate(savings_call.annual_rate)

\* (goal - current) / (years * 12).
LinearValue ==
  R(QDiv(QSub(SavingsGoal, SavingsCurrent), Q(savings_call.years * 12, 1)))

\* x / y for reals: y rational, or x zero, or x a rational multiple of y.
RQuot(x, y) ==
  IF RIsRational(y) THEN RDiv(x, y)
  ELSE IF RIsRational(x) /\ QSign(x.a) = 0 THEN R(Zero)
  ELSE CASE QEq(QMul(x.a, y.b), QMul(x.b, y.a)) -> R(QDiv(x.b, y.b))

\* The balance after the call's horizon: current grown at the monthly rate,
\* plus a contribution of c every month: current*fv + c*(fv - 1)/monthly_rate.
FinalBalance(c) ==
  LET monthly_rate == MonthlyRate(SavingsRate)
      fv == FutureValueFactor(monthly_rate, savings_call.years * 12)
  IN  RAdd(RMul(R(SavingsCurrent), fv),
           RQuot(RMul(c, RSub(fv, R(One))), monthly_rate))

\* current * fv, the balance without any contribution.
GrownBalance ==
  RMul(R(SavingsCurrent),
       FutureValueFactor(MonthlyRate(SavingsRate), savings_call.years * 12))

\* C1 as stated: calculate_monthly_savings never returns a negative
\* contribution: every value it returns, on every path, is >= 0.
C1_NeverNegative ==
  (SavingsCalled /\ SavingsReturned) => RSign(savings_call.result.value) >= 0

\* C2 as stated: with annual_rate = 0 the call raises no division error and
\* returns the linear amortization (goal - current) / (years * 12).
C2_ZeroRateIsLinear ==
  (SavingsCalled /\ QSign(SavingsRate) = 0)
  => /\ SavingsReturned
     /\ REq(savings_call.result.value, LinearValue)

NearLargest == QMul(Q(1797, 1000), QPow(Q(10, 1), 308))
PastLargest == QMul(Q(1798, 1000), QPow(Q(10, 1), 308))

\* (1 + annual_rate) ** years, the exact growth factor.
SavingsGrowth == QPow(QAdd(One, SavingsRate), savings_call.years)
\* current * growth and goal - current * growth.
SavingsProduct == QMul(SavingsCurrent, SavingsGrowth)
SavingsDifference == QSub(SavingsGoal, SavingsProduct)

RunReachedCalculation == script.status \notin {"none", "stopped"}

\* C5 as stated: a withdrawal rate <= 0 is rejected: the run ends with an
\* error and binds no required capital and no monthly savings.
C5_NonPositiveRateRejected ==
  (RunReachedCalculation /\ QSign(script.withdrawal_rate) <= 0)
  => /\ script.status # "completed"
     /\ script.required_capital = Unbound
     /\ script.monthly_savings = NotCalled

\* C6 as stated: with monthly_income_goal = 0 and initial_investment >= 0 the
\* run yields base_required_capital = 0, tax_buffer = 0 and
\* monthly_savings = 0, whatever the other inputs are.
C6_ZeroGoalNeedsNothing ==
  (RunReachedCalculation
     /\ widgets.monthly_income_goal = 0 /\ widgets.initial_investment >= 0)
  => /\ QSign(script.base_required_capital) = 0
     /\ QSign(script.tax_buffer) = 0
     /\ script.monthly_savings.exc = "none"
     /\ RIsZero(script.monthly_savings.value)

\* C7 as stated: in every run that reaches the capital calculation,
\* base_required_capital, tax_buffer and required_capital are >= 0 and
\* required_capital = base_required_capital + tax_buffer.
C7_CapitalNonNegative ==
  RunReachedCalculation
  => /\ QSign(script.base_required_capital) >= 0
     /\ QSign(script.tax_buffer) >= 0
     /\ QSign(script.required_capital) >= 0
     /\ QEq(script.required_capital,
            QAdd(script.base_required_capital, script.tax_buffer))

\* C8 as stated: the withdrawal rate used in the capital calculation is in
\* the interval (0, 1], whichever strategy is selected.
C8_WithdrawalRateInUnitInterval ==
  RunReachedCalculation
  => /\ QSign(script.withdrawal_rate) > 0
     /\ QLeq(script.withdrawal_rate, One)

(***************************************************************************)
(* Monotonicity and continuity of calculate_box3_tax, over SpecTax.        *)
(***************************************************************************)
\* The wealth at which each band starts, with the rate of that band: the
\* exemption and the exemption plus each bracket limit (lines 136-150).
BandStarts(has_partner) ==
  LET k == IF has_partner THEN 2 ELSE 1
  IN  {<<57000 * k, Q(193, 10000)>>,
       <<157000 * k, Q(177, 10000)>>,
       <<1057000 * k, Q(186, 10000)>>}

\* C11: for a fixed has_partner, calculate_box3_tax is non-decreasing in
\* wealth (w1 <= w2 implies tax(w1) <= tax(w2)) and has no jump at the exempt
\* threshold or at either bracket bound: one euro above a bound the tax is
\* higher by exactly the marginal rate of the band that starts there.
C11_MonotoneWithoutJumps ==
  tax_call.called
  => /\ \A w2 \in WealthChoices :
          tax_call.wealth <= w2
          => QLeq(tax_call.result, TaxOf(w2, tax_call.has_partner))
     /\ \A band \in BandStarts(tax_call.has_partner) :
          tax_call.wealth = band[1]
          => QEq(QSub(TaxOf(band[1] + 1, tax_call.has_partner), tax_call.result),
                 band[2])

\* A call with a partner at the start of the second band (314000) that
\* returned 3860, with 0.0177 more one euro above and less one euro below.
C11_Witness ==
  /\ tax_call.called
  /\ tax_call.has_partner
  /\ tax_call.wealth = 314000
  /\ QEq(tax_call.result, Q(3860, 1))
  /\ QEq(QSub(TaxOf(314001, TRUE), tax_call.result), Q(177, 10000))
  /\ QLt(TaxOf(313999, TRUE), tax_call.result)

(***************************************************************************)
(* The age check, the tax buffer and the AOW offset of a run, over Spec.   *)
(***************************************************************************)
\* C12: when target_age <= initial_age the run shows the error and stops
\* before any calculation: years_to_freedom keeps its initial 0, no
\* required_capital is bound and calculate_monthly_savings is not called; a
\* call of calculate_monthly_savings always has years > 0.
C12_RejectedAgesStopTheRun ==
  /\ script.status # "none"
  /\ (widgets.target_age <= widgets.initial_age)
       => /\ script.status = "stopped"
          /\ script.years_to_freedom = 0
          /\ script.required_capital = Unbound
          /\ script.monthly_savings = NotCalled
          /\ script.monthly_pre_tax = Unbound
  /\ (script.monthly_savings # NotCalled) => script.years_to_grow > 0

\* A run on equal ages that stopped without calling the savings function.
C12_Witness ==
  /\ widgets.target_age = widgets.initial_age
  /\ script.status = "stopped"
  /\ script.monthly_savings = NotCalled

\* C13 as stated: in every run with withdrawal_rate > 0, the yearly
\* withdrawal required_capital * withdrawal_rate less the Box 3 tax on
\* required_capital leaves at least the annual income needed from savings.
C13_BufferCoversTaxOnTotal ==
  (RunReachedCalculation /\ QSign(script.withdrawal_rate) > 0)
  => QLeq(script.annual_income_needed_from_savings,
          QSub(QMul(script.required_capital, script.withdrawal_rate),
               calculate_box3_tax(script.required_capital, script.has_partner)))

\* The offset lines 439-444 give for the flags, from line 59's 0.
ExpectedMonthlyAow(include_aow, has_partner) ==
  IF ~include_aow THEN Zero
  ELSE IF has_partner THEN Q(198962, 100) ELSE Q(145206, 100)

\* C14: the monthly_aow of a run depends only on that run's flags, whatever
\* earlier runs did: 0 without include_aow, 1452.06 with include_aow and no
\* partner, 2 * 994.81 with both; and the income needed from savings is
\* (monthly_income_goal - monthly_aow) * 12.
C14_AowFromThisRunsFlags ==
  RunReachedCalculation
  => /\ QEq(script.monthly_aow,
            ExpectedMonthlyAow(widgets.include_aow, widgets.has_partner))
     /\ QEq(script.annual_income_needed_from_savings,
            QMul(QSub(Q(widgets.monthly_income_goal, 1),
                      ExpectedMonthlyAow(widgets.include_aow,
                                         widgets.has_partner)),
                 Q(12, 1)))

\* A completed run without include_aow, with a partner, whose offset is 0
\* and whose need is the whole goal of 3000 a month.
C14_Witness ==
  /\ script.status = "completed"
  /\ ~widgets.include_aow
  /\ widgets.has_partner
  /\ widgets.monthly_income_goal = MONTHLY_INCOME_GOAL
  /\ QSign(script.monthly_aow) = 0
  /\ QEq(script.annual_income_needed_from_savings, Q(36000, 1))
====
